---- MODULE Spec2Model ----
(***************************************************************************)
(* Model of src/slite_api.py: the line-oriented ProseMirror builder        *)
(* (SliteAPI._convert_to_prosemirror), the event registry and dispatch     *)
(* (SliteEventHandler) and the entity operations of SliteAPI that call the *)
(* remote service and fire the events.                                     *)
(*                                                                         *)
(* A Python str is a sequence of one-character strings.  A Python object   *)
(* that is mutated through a reference (the open paragraph, the open list) *)
(* lives in `heap` and is named by its index; None is 0.                   *)
(***************************************************************************)
EXTENDS Integers, Sequences, FiniteSets, TLC

VARIABLES
    \* ---- _convert_to_prosemirror
    content,            \* the argument
    lines,              \* content.split('\n')
    pos,                \* number of lines the for loop has consumed
    heap,               \* the block objects created so far
    doc_content,        \* list of references into heap
    current_list,       \* reference or None
    current_paragraph,  \* reference or None
    bpc,                \* "loop" | "returned" | "raised"
    result,             \* the returned document (None before the return)
    \* ---- SliteEventHandler
    handlers,           \* kind -> the *_handlers list
    \* ---- one call in progress on the SliteAPI / SliteEventHandler
    call,               \* the method being called, None when idle
    cpc,                \* "idle" | "request" | "loop" | "done"
    response,           \* what requests.post/put/delete gave (None before)
    tkind,              \* kind being triggered
    payload,            \* the argument of trigger_*
    it,                 \* index of the list iterator of the for loop
    snapshot,           \* the handler list when the trigger started (history)
    invoked,            \* handler calls made by the current call (history)
    outcome,            \* how the call ended (None before)
    regs,               \* number of on_* calls made so far
    \* ---- threads calling the on_* methods concurrently
    tcall,              \* thread -> the on_* call it is inside (NoCall if none)
    issued              \* thread -> the on_* calls it has made, in order (history)

builderVars == <<content, lines, pos, heap, doc_content, current_list,
                 current_paragraph, bpc, result>>
eventVars == <<handlers, call, cpc, response, tkind, payload, it, snapshot,
               invoked, outcome, regs>>
threadVars == <<tcall, issued>>
vars == <<builderVars, eventVars, threadVars>>

None == 0

-----------------------------------------------------------------------------
(* Bounds of the model.                                                    *)

\* Number of lines of an input text.
MaxLines == 3

\* Number of on_* calls (registrations) in a run.
MaxRegs == 3

-----------------------------------------------------------------------------
(* Python str operations, as the builder uses them.                        *)

IsSpace(c) == c \in {" ", "\t", "\r", "\n"}

IsDigit(c) == c \in {"0", "1", "2", "3", "4", "5", "6", "7", "8", "9"}

RECURSIVE RStrip(_)
RStrip(s) ==
    IF s = <<>> THEN <<>>
    ELSE IF IsSpace(s[Len(s)]) THEN RStrip(SubSeq(s, 1, Len(s) - 1))
    ELSE s

RECURSIVE LStrip(_)
LStrip(s) ==
    IF s = <<>> THEN <<>>
    ELSE IF IsSpace(Head(s)) THEN LStrip(Tail(s))
    ELSE s

Strip(s) == LStrip(RStrip(s))

StartsWith(s, p) == Len(s) >= Len(p) /\ SubSeq(s, 1, Len(p)) = p

\* s[n:]
From(s, n) == SubSeq(s, n + 1, Len(s))

\* content.split('\n'): always at least one piece; '' gives [''].
RECURSIVE SplitAcc(_, _, _)
SplitAcc(s, cur, acc) ==
    IF s = <<>> THEN Append(acc, cur)
    ELSE IF Head(s) = "\n" THEN SplitAcc(Tail(s), <<>>, Append(acc, cur))
    ELSE SplitAcc(Tail(s), Append(cur, Head(s)), acc)

Split(s) == SplitAcc(s, <<>>, <<>>)

\* The literal prefixes of the section-header branch.
HeaderPrefixes ==
    { <<"M","e","e","t","i","n","g"," ","N","o","t","e","s",":">>,
      <<"D","a","t","e",":">>,
      <<"T","i","m","e",":">>,
      <<"A","t","t","e","n","d","e","e","s",":">>,
      <<"F","a","c","i","l","i","t","a","t","o","r",":">> }

BulletMarker == <<"-", " ">>

-----------------------------------------------------------------------------
(* The branch the loop body takes for a line (already rstripped).          *)

IsBlank(line) == line = <<>>

IsBullet(line) == StartsWith(Strip(line), BulletMarker)

IsSectionHeader(line) == \E p \in HeaderPrefixes : StartsWith(line, p)

\* line[0].isdigit() and line[1] == '.': line[1] is read whenever line[0] is
\* a digit, and does not exist in a line of one character.
NumberedRaises(line) == IsDigit(line[1]) /\ Len(line) < 2

IsNumbered(line) == IsDigit(line[1]) /\ Len(line) >= 2 /\ line[2] = "."

Classify(line) ==
    IF IsBlank(line) THEN "blank"
    ELSE IF IsBullet(line) THEN "bullet"
    ELSE IF IsSectionHeader(line) THEN "header"
    ELSE IF NumberedRaises(line) THEN "IndexError"
    ELSE IF IsNumbered(line) THEN "numbered"
    ELSE "text"

-----------------------------------------------------------------------------
(* ProseMirror nodes.                                                      *)

TextNode(t) == [type |-> "text", text |-> t]

ParagraphNode(c) == [type |-> "paragraph", content |-> c]

HeadingNode(t) ==
    [type |-> "heading", level |-> 2, content |-> <<TextNode(t)>>]

BulletListNode(c) == [type |-> "bulletList", content |-> c]

ListItemNode(t) ==
    [type |-> "listItem", content |-> <<ParagraphNode(<<TextNode(t)>>)>>]

\* doc_content.append(x) for each reference of refs that is not None.
AppendRefs(dc, refs) == dc \o SelectSeq(refs, LAMBDA r : r /= None)

\* obj["content"].append(node) on the object that ref names.
HeapAppend(h, ref, node) ==
    [h EXCEPT ![ref].content = Append(@, node)]

\* The document as the caller sees it: every reference followed.
Resolve(h, dc) ==
    [type |-> "doc", content |-> [k \in 1..Len(dc) |-> h[dc[k]]]]

-----------------------------------------------------------------------------
(* Input texts: up to MaxLines lines drawn from Lines, joined by newlines. *)

Lines ==
    { <<>>,
      <<"a">>, <<"b">>, <<"a", " ">>,
      <<"5">>, <<"5", ".">>,
      <<"-", " ", "a">>, <<"-", " ", "b">>, <<" ", "-", " ", "a">>,
      <<"-">>,
      <<"D","a","t","e",":">> }

RECURSIVE Join(_)
Join(ls) ==
    IF Len(ls) = 1 THEN ls[1]
    ELSE ls[1] \o <<"\n">> \o Join(Tail(ls))

Contents ==
    { Join(ls) : ls \in UNION { [1..n -> Lines] : n \in 1..MaxLines } }

-----------------------------------------------------------------------------
(* SliteEventHandler.__init__: four empty handler lists; no method of the  *)
(* integration is being called.                                            *)

Kinds == {"folder_created", "folder_updated", "document_created",
          "document_updated"}

NoResponse == [exc |-> "none", code |-> 0, body |-> "none"]

Pending == [how |-> "pending", value |-> "none"]

Threads == {"t1", "t2"}

NoCall == [kind |-> "none", handler |-> "none"]

\* No thread is inside an on_* method and none has called one.
ThreadsIdle ==
    /\ tcall = [t \in Threads |-> NoCall]
    /\ issued = [t \in Threads |-> <<>>]

EventIdle ==
    /\ handlers = [k \in Kinds |-> <<>>]
    /\ call = "none"
    /\ cpc = "idle"
    /\ response = NoResponse
    /\ tkind = "none"
    /\ payload = "none"
    /\ it = 0
    /\ snapshot = <<>>
    /\ invoked = <<>>
    /\ outcome = Pending
    /\ regs = 0

-----------------------------------------------------------------------------
(* SliteAPI._convert_to_prosemirror                                         *)

BuilderInit ==
    /\ content \in Contents
    /\ lines = Split(content)
    /\ pos = 0
    /\ heap = <<>>
    /\ doc_content = <<>>
    /\ current_list = None
    /\ current_paragraph = None
    /\ bpc = "loop"
    /\ result = None
    /\ EventIdle
    /\ ThreadsIdle

\* line = line.rstrip() of the line the loop is at.
CurLine == RStrip(lines[pos + 1])

AtLine(kind) ==
    /\ bpc = "loop"
    /\ pos < Len(lines)
    /\ Classify(CurLine) = kind

\* if not line: the open list is appended and cleared, the open paragraph is
\* appended (and stays open), an empty paragraph is appended.
BlankLine ==
    /\ AtLine("blank")
    /\ heap' = Append(heap, ParagraphNode(<<TextNode(<<>>)>>))
    /\ doc_content' =
           Append(AppendRefs(doc_content, <<current_list, current_paragraph>>),
                  Len(heap) + 1)
    /\ current_list' = None
    /\ pos' = pos + 1
    /\ UNCHANGED <<eventVars, threadVars>>
    /\ UNCHANGED <<content, lines, current_paragraph, bpc, result>>

\* Slip: a list is opened for every bullet line, whether one is open or not.
BulletLineNewList ==
    /\ AtLine("bullet")
    /\ heap' = HeapAppend(Append(heap, BulletListNode(<<>>)), Len(heap) + 1,
                          ListItemNode(From(Strip(CurLine), 2)))
    /\ current_list' = Len(heap) + 1
    /\ pos' = pos + 1
    /\ UNCHANGED <<eventVars, threadVars>>
    /\ UNCHANGED <<content, lines, doc_content, current_paragraph, bpc, result>>

\* line.strip().startswith('- '): the list is opened if there is none and
\* the item is appended to it; the open paragraph is not touched.
BulletLine ==
    /\ AtLine("bullet")
    /\ LET text == From(Strip(CurLine), 2)
           h1 == IF current_list = None
                     THEN Append(heap, BulletListNode(<<>>))
                     ELSE heap
           ref == IF current_list = None THEN Len(heap) + 1 ELSE current_list
       IN /\ heap' = HeapAppend(h1, ref, ListItemNode(text))
          /\ current_list' = ref
    /\ pos' = pos + 1
    /\ UNCHANGED <<eventVars, threadVars>>
    /\ UNCHANGED <<content, lines, doc_content, current_paragraph, bpc, result>>

\* The two heading branches share their body.
HeadingBody ==
    /\ heap' = Append(heap, HeadingNode(CurLine))
    /\ doc_content' =
           Append(AppendRefs(doc_content, <<current_list, current_paragraph>>),
                  Len(heap) + 1)
    /\ current_list' = None
    /\ current_paragraph' = None
    /\ pos' = pos + 1
    /\ UNCHANGED <<eventVars, threadVars>>
    /\ UNCHANGED <<content, lines, bpc, result>>

SectionHeaderLine == AtLine("header") /\ HeadingBody

NumberedLine == AtLine("numbered") /\ HeadingBody

\* line[1] of a one-character line: IndexError leaves the function.
NumberedIndexError ==
    /\ AtLine("IndexError")
    /\ bpc' = "raised"
    /\ UNCHANGED <<eventVars, threadVars>>
    /\ UNCHANGED <<content, lines, pos, heap, doc_content, current_list,
                   current_paragraph, result>>

\* else: the open list is appended and cleared, a paragraph is opened if
\* there is none, and the line is appended to it as a text node.
RegularLine ==
    /\ AtLine("text")
    /\ LET h1 == IF current_paragraph = None
                     THEN Append(heap, ParagraphNode(<<>>))
                     ELSE heap
           ref == IF current_paragraph = None
                     THEN Len(heap) + 1
                     ELSE current_paragraph
       IN /\ heap' = HeapAppend(h1, ref, TextNode(CurLine))
          /\ current_paragraph' = ref
    /\ doc_content' = AppendRefs(doc_content, <<current_list>>)
    /\ current_list' = None
    /\ pos' = pos + 1
    /\ UNCHANGED <<eventVars, threadVars>>
    /\ UNCHANGED <<content, lines, bpc, result>>

\* After the loop: the remaining list, then the remaining paragraph, and
\* the return.
BuilderReturn ==
    /\ bpc = "loop"
    /\ pos = Len(lines)
    /\ doc_content' = AppendRefs(doc_content, <<current_list, current_paragraph>>)
    /\ result' = Resolve(heap, doc_content')
    /\ bpc' = "returned"
    /\ UNCHANGED <<eventVars, threadVars>>
    /\ UNCHANGED <<content, lines, pos, heap, current_list, current_paragraph>>

BuilderNext ==
    \/ BlankLine
    \/ BulletLine
    \/ SectionHeaderLine
    \/ NumberedLine
    \/ NumberedIndexError
    \/ RegularLine
    \/ BuilderReturn

SpecBuilder == BuilderInit /\ [][BuilderNext]_vars

-----------------------------------------------------------------------------
(* Properties of the builder.                                              *)

RECURSIVE Flatten(_)
Flatten(ss) == IF ss = <<>> THEN <<>> ELSE Head(ss) \o Flatten(Tail(ss))

\* The texts of the text nodes of a tree, left to right.
RECURSIVE Leaves(_)
Leaves(n) ==
    IF n.type = "text" THEN <<n.text>>
    ELSE Flatten([k \in 1..Len(n.content) |-> Leaves(n.content[k])])

\* What a source line contributes as text: a bullet line its text after the
\* marker, any other line itself (a blank line the empty string).
LineText(raw) ==
    LET l == RStrip(raw)
    IN IF IsBullet(l) THEN From(Strip(l), 2) ELSE l

SourceTexts(ls) == [k \in 1..Len(ls) |-> LineText(ls[k])]

IsRegular(raw) == Classify(RStrip(raw)) = "text"

SingleDigit(l) == Len(l) = 1 /\ IsDigit(l[1])

\* C1: for every input string the builder terminates and returns a node of
\* type doc; no input makes it raise.  (Stated on the ended call: it has
\* returned a doc, it has not raised.)
C1_BuildTotal ==
    /\ bpc /= "raised"
    /\ bpc = "returned" => result.type = "doc"

\* C2: building from the empty string returns a document with zero
\* children.
C2_EmptyInputNoChildren ==
    (bpc = "returned" /\ content = <<>>) => Len(result.content) = 0

\* C3: for regular text lines a and b, "a\n\nb" yields exactly the three
\* children Paragraph[a], Paragraph[""], Paragraph[b]: the blank line closed
\* the paragraph of a, so b does not join it and it is not appended twice.
C3_BlankLineClosesParagraph ==
    ( /\ bpc = "returned"
      /\ Len(lines) = 3
      /\ IsRegular(lines[1])
      /\ IsBlank(RStrip(lines[2]))
      /\ IsRegular(lines[3]) )
    => result.content =
           << ParagraphNode(<<TextNode(RStrip(lines[1]))>>),
              ParagraphNode(<<TextNode(<<>>)>>),
              ParagraphNode(<<TextNode(RStrip(lines[3]))>>) >>

\* C4: whenever the builder returns, the text leaves of the document read
\* left to right are the source lines in source order, each exactly once
\* (bullet lines without their marker, blank lines as empty strings).
C4_ReadingOrder ==
    bpc = "returned" => Leaves(result) = SourceTexts(lines)

\* C5: a line that is exactly one decimal digit is regular text: the builder
\* does not fail on it, and once the line is consumed the digit is the last
\* text leaf of the open paragraph and no heading was made of it.
C5_SingleDigitIsText ==
    /\ (bpc = "raised" => ~SingleDigit(CurLine))
    /\ ( /\ bpc = "loop"
         /\ pos > 0
         /\ SingleDigit(RStrip(lines[pos])) )
       => /\ current_paragraph /= None
          /\ LET c == heap[current_paragraph].content
             IN c[Len(c)] = TextNode(RStrip(lines[pos]))
          /\ heap[Len(heap)].type /= "heading"

\* The maximal runs of consecutive bullet lines of a source, each run the
\* texts of its lines after the marker.
RECURSIVE BulletRuns(_, _, _)
BulletRuns(ls, cur, acc) ==
    IF ls = <<>> THEN (IF cur = <<>> THEN acc ELSE Append(acc, cur))
    ELSE IF IsBullet(RStrip(Head(ls)))
         THEN BulletRuns(Tail(ls), Append(cur, LineText(Head(ls))), acc)
    ELSE BulletRuns(Tail(ls), <<>>, IF cur = <<>> THEN acc ELSE Append(acc, cur))

\* The list a run of bullet texts is to become.
ListOfRun(run) == BulletListNode([i \in 1..Len(run) |-> ListItemNode(run[i])])

BulletLists(doc) == SelectSeq(doc.content, LAMBDA n : n.type = "bulletList")

\* C11: every BulletList of a returned document is non-empty and holds
\* exactly the items of one maximal run of consecutive bullet lines, one
\* ListItem per line in source order, each a single Paragraph with a single
\* Text leaf equal to the line's text after the marker: the lists of the
\* document, in order, are the lists of the runs of the source.
C11_ListsAreBulletRuns ==
    bpc = "returned" =>
        LET runs == BulletRuns(lines, <<>>, <<>>)
            lists == BulletLists(result)
        IN /\ \A i \in 1..Len(lists) : lists[i].content /= <<>>
           /\ lists = [r \in 1..Len(runs) |-> ListOfRun(runs[r])]

\* "- a\n- b" was built into one list with the items a then b.
C11_Witness ==
    /\ bpc = "returned"
    /\ content = <<"-", " ", "a", "\n", "-", " ", "b">>
    /\ result.content =
           << BulletListNode(<<ListItemNode(<<"a">>), ListItemNode(<<"b">>)>>) >>

\* C13: a bullet line flushes the open paragraph before its item is added,
\* so after any line has been processed an open list and an open paragraph
\* are never both present.
C13_ListAndParagraphNeverBothOpen ==
    ~(current_list /= None /\ current_paragraph /= None)

-----------------------------------------------------------------------------
(* SliteEventHandler and the entity operations of SliteAPI.                *)
(*                                                                         *)
(* One caller thread calls the methods, one call at a time; the on_*       *)
(* methods may also be called by another thread at any moment (under the   *)
(* GIL list.append and one step of a list iterator are atomic), and by a   *)
(* handler while it runs inside a trigger.                                 *)

HandlerIds == {"h1", "h2"}

\* Entities the remote service answers with; they become event payloads.
Payloads == {"e1", "e2"}

\* How one handler call ends: it returns, or raises an Exception.
HandlerOutcomes == {"return", "Exception"}

\* What requests.post/put/delete gives: a transport failure (an exception),
\* or a response with a status code and a body that response.json() parses
\* to an entity or fails on.
StatusCodes == {200, 201, 204, 401, 404, 429, 500}

Responses ==
    {[exc |-> "ConnectionError", code |-> 0, body |-> "none"]}
    \cup [exc : {"none"}, code : StatusCodes, body : Payloads \cup {"unreadable"}]

\* Texts handed to create_note / update_note.
NoteContents == {<<"a">>, <<"5">>}

\* Whether _convert_to_prosemirror raises on a text.
BuildRaises(text) ==
    \E k \in 1..Len(Split(text)) :
        Classify(RStrip(Split(text)[k])) = "IndexError"

Raised == [how |-> "raised", value |-> "none"]

Returned(v) == [how |-> "returned", value |-> v]

EventInit ==
    /\ content = <<>>
    /\ lines = <<>>
    /\ pos = 0
    /\ heap = <<>>
    /\ doc_content = <<>>
    /\ current_list = None
    /\ current_paragraph = None
    /\ bpc = "idle"
    /\ result = None
    /\ EventIdle
    /\ ThreadsIdle

\* Slip: a handler already in the list is not appended again.
RegisteredOnce(hs, k, h) ==
    IF \E i \in 1..Len(hs[k]) : hs[k][i] = h THEN hs
    ELSE [hs EXCEPT ![k] = Append(@, h)]

\* self.<kind>_handlers.append(handler)
Registered(hs, k, h) == [hs EXCEPT ![k] = Append(@, h)]

On(k) ==
    /\ cpc /= "done"
    /\ regs < MaxRegs
    /\ \E h \in HandlerIds : handlers' = Registered(handlers, k, h)
    /\ regs' = regs + 1
    /\ UNCHANGED <<call, cpc, response, tkind, payload, it, snapshot, invoked,
                   outcome>>
    /\ UNCHANGED <<builderVars, threadVars>>

on_folder_created == On("folder_created")

on_folder_updated == On("folder_updated")

on_document_created == On("document_created")

on_document_updated == On("document_updated")

\* Entering `for handler in self.<kind>_handlers:` with the argument p.
EnterLoop(k, p) ==
    /\ tkind' = k
    /\ payload' = p
    /\ it' = 0
    /\ snapshot' = handlers[k]
    /\ invoked' = <<>>
    /\ cpc' = "loop"
    /\ outcome' = Pending

\* A call that ends without entering a trigger.
EndCall(o) ==
    /\ cpc' = "done"
    /\ outcome' = o
    /\ invoked' = <<>>
    /\ UNCHANGED <<tkind, payload, it, snapshot>>

\* trigger_<kind>(data), called directly.
Trigger(k) ==
    /\ cpc = "idle"
    /\ call' = "trigger"
    /\ response' = NoResponse
    /\ \E p \in Payloads : EnterLoop(k, p)
    /\ UNCHANGED <<handlers, regs>>
    /\ UNCHANGED <<builderVars, threadVars>>

trigger_folder_created == Trigger("folder_created")

trigger_folder_updated == Trigger("folder_updated")

trigger_document_created == Trigger("document_created")

trigger_document_updated == Trigger("document_updated")

\* The list iterator: the element it yields at index i, and whether it is
\* exhausted, both read from the list as it is now.
IterHas(hs, i) == i < Len(hs)

\* Slip: the list is walked from its end.
IterItemReversed(hs, i) == hs[Len(hs) - i]

IterItem(hs, i) == hs[i + 1]

\* Slip: the handler call is not guarded, nothing is caught.
ExceptNothing(e) == FALSE

\* except Exception
ExceptException(e) == e = "Exception"

\* handler(data): the argument the handler is called with.
HandlerArg(data) == data

\* One iteration of the loop: the handler is called with the data, ends
\* with e, and appended `added` (kind and handler pairs) while it ran.
Iteration(e, hs) ==
    /\ cpc = "loop"
    /\ IterHas(handlers[tkind], it)
    /\ invoked' = Append(invoked,
                         [handler |-> IterItem(handlers[tkind], it),
                          arg |-> HandlerArg(payload),
                          exc |-> e])
    /\ it' = it + 1
    /\ handlers' = hs
    /\ IF e = "return" \/ ExceptException(e)
          THEN UNCHANGED <<cpc, outcome>>
          ELSE cpc' = "done" /\ outcome' = Raised
    /\ UNCHANGED <<call, response, tkind, payload, snapshot>>
    /\ UNCHANGED <<builderVars, threadVars>>

\* A handler that registers nothing.
HandlerRuns ==
    /\ \E e \in HandlerOutcomes : Iteration(e, handlers)
    /\ UNCHANGED regs

\* A handler that calls an on_* method of the same SliteEventHandler.
HandlerRegisters ==
    /\ regs < MaxRegs
    /\ \E e \in HandlerOutcomes, k \in Kinds, h \in HandlerIds :
           Iteration(e, Registered(handlers, k, h))
    /\ regs' = regs + 1

\* The iterator is exhausted: trigger_* returns None, and the operation
\* that called it returns its entity.
LoopExit ==
    /\ cpc = "loop"
    /\ ~IterHas(handlers[tkind], it)
    /\ cpc' = "done"
    /\ outcome' = IF call = "trigger" THEN Returned("None") ELSE Returned(payload)
    /\ UNCHANGED <<handlers, call, response, tkind, payload, it, snapshot,
                   invoked, regs>>
    /\ UNCHANGED <<builderVars, threadVars>>

\* The caller has the result; the next call can be made.
Complete ==
    /\ cpc = "done"
    /\ call' = "none"
    /\ cpc' = "idle"
    /\ response' = NoResponse
    /\ tkind' = "none"
    /\ payload' = "none"
    /\ it' = 0
    /\ snapshot' = <<>>
    /\ invoked' = <<>>
    /\ outcome' = Pending
    /\ UNCHANGED <<handlers, regs>>
    /\ UNCHANGED <<builderVars, threadVars>>

\* Slip: the status is not looked at before the event is fired.
StatusUnchecked(code) == TRUE

\* response.status_code in [200, 201]
StatusCreated(code) == code \in {200, 201}

\* response.raise_for_status(): HTTPError for 4xx and 5xx, nothing else.
RaiseForStatus(code) == 400 <= code /\ code < 600

\* create_folder, update_folder, create_document, update_document: on 200
\* or 201 the body is parsed, the event is triggered with the entity and the
\* entity is returned; otherwise raise_for_status(); `except Exception`
\* logs and re-raises.  When raise_for_status() raises nothing the function
\* ends without a return statement.
EventOp(op, k, r) ==
    /\ cpc = "idle"
    /\ call' = op
    /\ response' = r
    /\ IF r.exc /= "none" THEN EndCall(Raised)
       ELSE IF StatusCreated(r.code)
            THEN IF r.body = "unreadable" THEN EndCall(Raised)
                 ELSE EnterLoop(k, r.body)
       ELSE IF RaiseForStatus(r.code) THEN EndCall(Raised)
       ELSE EndCall(Returned("None"))
    /\ UNCHANGED <<handlers, regs>>
    /\ UNCHANGED <<builderVars, threadVars>>

create_folder == \E r \in Responses : EventOp("create_folder", "folder_created", r)

update_folder == \E r \in Responses : EventOp("update_folder", "folder_updated", r)

create_document ==
    \E r \in Responses : EventOp("create_document", "document_created", r)

update_document ==
    \E r \in Responses : EventOp("update_document", "document_updated", r)

\* create_note, update_note, delete_note, delete_folder, delete_document:
\* on a status of `success` the function returns (the parsed body when
\* `parses`, a fixed dict otherwise); on any other status it raises; a
\* RequestException (transport failure, unparsable body) is re-raised as
\* Exception.  create_note and update_note first convert their text, which
\* may raise before any request is made.
NoteOp(op, success, parses, converts, r) ==
    /\ cpc = "idle"
    /\ call' = op
    /\ \E text \in NoteContents :
          IF converts /\ BuildRaises(text)
             THEN response' = NoResponse /\ EndCall(Raised)
          ELSE /\ response' = r
               /\ IF r.exc /= "none" THEN EndCall(Raised)
                  ELSE IF r.code \in success
                       THEN IF ~parses THEN EndCall(Returned("success"))
                            ELSE IF r.body = "unreadable" THEN EndCall(Raised)
                            ELSE EndCall(Returned(r.body))
                  ELSE EndCall(Raised)
    /\ UNCHANGED <<handlers, regs>>
    /\ UNCHANGED <<builderVars, threadVars>>

create_note == \E r \in Responses : NoteOp("create_note", {200, 201}, TRUE, TRUE, r)

update_note == \E r \in Responses : NoteOp("update_note", {200}, TRUE, TRUE, r)

delete_note == \E r \in Responses : NoteOp("delete_note", {204}, FALSE, FALSE, r)

delete_folder == \E r \in Responses : NoteOp("delete_folder", {204}, FALSE, FALSE, r)

delete_document ==
    \E r \in Responses : NoteOp("delete_document", {204}, FALSE, FALSE, r)

EventNext ==
    \/ on_folder_created
    \/ on_folder_updated
    \/ on_document_created
    \/ on_document_updated
    \/ trigger_folder_created
    \/ trigger_folder_updated
    \/ trigger_document_created
    \/ trigger_document_updated
    \/ HandlerRuns
    \/ HandlerRegisters
    \/ LoopExit
    \/ Complete
    \/ create_folder
    \/ update_folder
    \/ create_document
    \/ update_document
    \/ create_note
    \/ update_note
    \/ delete_note
    \/ delete_folder
    \/ delete_document

SpecEvents == EventInit /\ [][EventNext]_vars

-----------------------------------------------------------------------------
(* Properties of the event dispatch and of the entity operations.          *)

\* The handlers the current call has invoked, in order.
InvokedHandlers == [i \in 1..Len(invoked) |-> invoked[i].handler]

\* A call that ran a trigger has ended.
TriggerEnded == cpc = "done" /\ tkind /= "none"

\* The event each event-firing operation announces.
EventOf ==
    [create_folder |-> "folder_created", update_folder |-> "folder_updated",
     create_document |-> "document_created",
     update_document |-> "document_updated"]

EventOps == DOMAIN EventOf

\* The status codes each create, update and delete operation treats as
\* success.
SuccessOf ==
    [create_folder |-> {200, 201}, update_folder |-> {200, 201},
     create_document |-> {200, 201}, update_document |-> {200, 201},
     create_note |-> {200, 201}, update_note |-> {200},
     delete_note |-> {204}, delete_folder |-> {204},
     delete_document |-> {204}]

\* C6: a trigger of kind K invokes the handlers registered for K in
\* registration order, once per registration entry, each with the payload
\* passed to the trigger, and no handler of another kind: at every moment of
\* the loop the invocations made are the first entries of K's list, and when
\* the trigger has returned they are the whole list.
C6_TriggerInvokesInOrder ==
    tkind /= "none" =>
        /\ Len(invoked) <= Len(handlers[tkind])
        /\ InvokedHandlers = SubSeq(handlers[tkind], 1, Len(invoked))
        /\ \A i \in 1..Len(invoked) : invoked[i].arg = payload
        /\ (cpc = "done" /\ outcome.how = "returned")
               => Len(invoked) = Len(handlers[tkind])

\* A handler registered twice was invoked twice by a returned trigger while
\* a handler of another kind was not invoked.
C6_Witness ==
    /\ TriggerEnded
    /\ call = "trigger"
    /\ Len(invoked) = 2
    /\ invoked[1].handler = invoked[2].handler
    /\ \E k \in Kinds \ {tkind} : handlers[k] /= <<>>

\* C7: a trigger never fails: whichever handlers raise, every handler
\* registered for the kind is still invoked and the call returns normally;
\* with no handler registered it returns having invoked nothing.
C7_TriggerNeverFails ==
    /\ outcome.how = "raised" => tkind = "none"
    /\ TriggerEnded =>
           /\ outcome.how = "returned"
           /\ Len(invoked) = Len(handlers[tkind])

\* The first handler raised, a later one was invoked, the trigger returned.
C7_Witness ==
    /\ TriggerEnded
    /\ call = "trigger"
    /\ Len(invoked) >= 2
    /\ invoked[1].exc = "Exception"
    /\ outcome.how = "returned"

\* C8: the handlers one trigger invokes are exactly the entries registered
\* for the kind when the trigger started; a handler registered for the kind
\* while the trigger is in progress is not invoked by it.
C8_TriggerUsesSnapshot ==
    TriggerEnded => InvokedHandlers = snapshot

\* C9: events fire only on confirmed success: an event-firing operation
\* enters its trigger (and so invokes handlers) only for its own event and
\* only after a response with a success status whose body could be read;
\* an operation that failed has invoked no handler.
C9_EventsOnlyOnSuccess ==
    call \in EventOps =>
        /\ (cpc = "loop" \/ invoked /= <<>> \/ tkind /= "none") =>
               /\ response.exc = "none"
               /\ response.code \in 200..299
               /\ response.body \in Payloads
               /\ tkind = EventOf[call]
        /\ (cpc = "done" /\ outcome.how = "raised") => invoked = <<>>

\* create_document succeeded and its handler was invoked with the entity.
C9_Witness ==
    /\ call = "create_document"
    /\ cpc = "done"
    /\ outcome.how = "returned"
    /\ Len(invoked) >= 1
    /\ invoked[1].arg = response.body

\* C10: for every create, update and delete operation and every response
\* status that is not the operation's success status, the operation raises;
\* it never returns after such a response.
C10_NonSuccessRaises ==
    ( /\ cpc = "done"
      /\ call \in DOMAIN SuccessOf
      /\ response /= NoResponse
      /\ response.exc = "none"
      /\ response.code \notin SuccessOf[call] )
    => outcome.how = "raised"

\* C14: every trigger call ends after as many handler invocations as there
\* were entries registered for the kind when the call started, also when a
\* handler registers further handlers for the kind while the trigger runs.
C14_InvocationsBoundedByStart ==
    tkind /= "none" =>
        /\ Len(invoked) <= Len(snapshot)
        /\ cpc = "done" => Len(invoked) = Len(snapshot)

-----------------------------------------------------------------------------
(* Threads calling the on_* methods concurrently.                          *)
(*                                                                         *)
(* A call of on_<kind>(handler) reads self.<kind>_handlers, a list object  *)
(* that is created in __init__ and never replaced, and calls its append;   *)
(* the thread can be suspended between entering the method and the append, *)
(* and list.append itself is one atomic step of the interpreter.           *)

ThreadInit ==
    /\ content = <<>>
    /\ lines = <<>>
    /\ pos = 0
    /\ heap = <<>>
    /\ doc_content = <<>>
    /\ current_list = None
    /\ current_paragraph = None
    /\ bpc = "idle"
    /\ result = None
    /\ EventIdle
    /\ ThreadsIdle

\* Thread t enters on_<k>(h).
ThreadCallsOn(t) ==
    /\ tcall[t] = NoCall
    /\ regs < MaxRegs
    /\ \E k \in Kinds, h \in HandlerIds :
          /\ tcall' = [tcall EXCEPT ![t] = [kind |-> k, handler |-> h]]
          /\ issued' = [issued EXCEPT ![t] = Append(@, [kind |-> k, handler |-> h])]
    /\ regs' = regs + 1
    /\ UNCHANGED <<handlers, call, cpc, response, tkind, payload, it, snapshot,
                   invoked, outcome>>
    /\ UNCHANGED builderVars

\* The append of thread t's call executes and the method returns.
ThreadAppends(t) ==
    /\ tcall[t] /= NoCall
    /\ handlers' = Registered(handlers, tcall[t].kind, tcall[t].handler)
    /\ tcall' = [tcall EXCEPT ![t] = NoCall]
    /\ UNCHANGED <<call, cpc, response, tkind, payload, it, snapshot, invoked,
                   outcome, regs, issued>>
    /\ UNCHANGED builderVars

ThreadNext ==
    \/ \E t \in Threads : ThreadCallsOn(t)
    \/ \E t \in Threads : ThreadAppends(t)

SpecThreads == ThreadInit /\ [][ThreadNext]_vars

-----------------------------------------------------------------------------
(* Properties of concurrent registration.                                  *)

Count(seq, x) == Cardinality({i \in 1..Len(seq) : seq[i] = x})

RECURSIVE IssuedCount(_, _)
IssuedCount(ts, c) ==
    IF ts = {} THEN 0
    ELSE LET t == CHOOSE u \in ts : TRUE
         IN Count(issued[t], c) + IssuedCount(ts \ {t}, c)

\* The handlers thread t registered for kind k, in the order of its calls.
IssuedFor(t, k) ==
    LET cs == SelectSeq(issued[t], LAMBDA c : c.kind = k)
    IN [i \in 1..Len(cs) |-> cs[i].handler]

RECURSIVE IsSubSeq(_, _)
IsSubSeq(a, b) ==
    IF a = <<>> THEN TRUE
    ELSE IF b = <<>> THEN FALSE
    ELSE IF Head(a) = Head(b) THEN IsSubSeq(Tail(a), Tail(b))
    ELSE IsSubSeq(a, Tail(b))

AllReturned == \A t \in Threads : tcall[t] = NoCall

\* C12: under every interleaving of on_* calls from several threads, once
\* all calls have returned the registry holds exactly one entry per call,
\* none lost or duplicated, and the entries of each caller are in that
\* caller's call order.
C12_ConcurrentRegisterSafe ==
    AllReturned =>
        /\ \A k \in Kinds, h \in HandlerIds :
               Count(handlers[k], h)
                   = IssuedCount(Threads, [kind |-> k, handler |-> h])
        /\ \A t \in Threads, k \in Kinds : IsSubSeq(IssuedFor(t, k), handlers[k])

\* Two threads registered for the same kind, the one call of t2 landing
\* between the two calls of t1, one of which repeats a handler.
C12_Witness ==
    /\ AllReturned
    /\ IssuedFor("t1", "folder_created") = <<"h1", "h1">>
    /\ IssuedFor("t2", "folder_created") = <<"h2">>
    /\ handlers["folder_created"] = <<"h1", "h2", "h1">>

====
